---- MODULE Spec2Model ----
(***************************************************************************)
(* Batch job queue and retry scheduling: the QueueManager service, its     *)
(* Semaphore, the batch_jobs / queue_items tables with the                 *)
(* update_batch_job_progress function, and the batch operations and        *)
(* processQueueItem of the useBatchProcessing hook.                        *)
(*                                                                         *)
(* Every await of the source is a step boundary: one action is the store   *)
(* applying one request together with the synchronous continuation that    *)
(* follows it; a request a processor did not await is applied whenever it  *)
(* reaches the store.  A batch job's timestamps are abstracted to the      *)
(* number of value never written (0, NULL), written once (1) or            *)
(* overwritten (2); a queue item's timestamps to 0 (NULL) or 1 (set).      *)
(***************************************************************************)
EXTENDS Integers, Sequences, FiniteSets, Bags, TLC

(* ------------------------------ bounds -------------------------------- *)
\* queue items of the batch job in the initial store
NumItems == 2
\* options.concurrency ranges over 1..MaxConcurrency
MaxConcurrency == 2
\* startProcessing / resumeBatchJob invocations in one behaviour
MaxRuns == 2
\* cancelBatchJob invocations in one behaviour
MaxCancels == 1
\* retryFailedItems invocations in one behaviour
MaxRetryRounds == 1
\* max_retries of a stored row ranges over 0..MaxItemRetries
MaxItemRetries == 1
\* updateProgress calls in one behaviour
MaxProgressCalls == 1
\* processQueueItem calls of the hook's user in one behaviour
MaxHookCalls == 1

(* ------------------------- program constants -------------------------- *)
\* QueueManager constructor defaults
retryDelay == 1000
maxRetries == 3

JobIds == {1, 2}
RunIds == 1 .. MaxRuns
\* values a processor may pass to updateProgress
ProgressInputs == {-10, 50, 150}
\* what a processor rejects with: a value whose .message can be read (an
\* Error, a string, an object), or undefined / null
Rejections == {"error", "nullish"}
\* job types a processor is registered for
JobTypes == {"video_processing"}
\* priorities of stored rows
Priorities == {1, 5}

VARIABLES
  batch_jobs,    \* table batch_jobs: job id -> row (the domain is the rows present)
  queue_items,   \* table queue_items: item id -> row; created_at order is id order
  processors,    \* QueueManager.processors: the job types with a processor
  concurrency,   \* QueueManager.options.concurrency
  hook,          \* useBatchProcessing: processingQueueRef, the processQueueItem
                 \* invocations in flight, and their pending retry timers
  processing,    \* QueueManager.processing: item ids with an attempt in flight
  attempts,      \* processItem invocations past the in-flight guard
  timers,        \* bag of pending setTimeout retry callbacks
  runs,          \* startProcessing invocations, with their Semaphore
  cancelling,    \* cancelBatchJob calls between their two writes: job id -> count
  calls,         \* operations invoked so far (bounds the behaviour), whether a
                 \* cancel was invoked with items processing and items pending,
                 \* and the items a cancel has set to cancelled
  creating,      \* the createBatchJob call in flight, if any
  stats          \* per item, of the QueueManager's attempts: processor invocations,
                 \* failures whose outcome was written, successes (history)

vars == <<batch_jobs, queue_items, processors, concurrency, hook, processing,
          attempts, timers, runs, cancelling, calls, creating, stats>>

(* ------------------------------ helpers ------------------------------- *)
Min(a, b) == IF a < b THEN a ELSE b
Max(a, b) == IF a > b THEN a ELSE b

RECURSIVE Pow2(_)
\* Math.pow(2, n) for n >= 0
Pow2(n) == IF n <= 0 THEN 1 ELSE 2 * Pow2(n - 1)

\* CHECK constraint of batch_jobs.status
JobStatusCheck(s) == s \in {"pending", "processing", "completed", "failed", "cancelled"}

\* CHECK constraint of queue_items.progress (no write of the model is
\* filtered by it: C4 shows that none violates it)
ProgressCheck(p) == p >= 0 /\ p <= 100

ClampNoFloor(p) == Min(100, p)
\* Math.min(100, Math.max(0, progress))
Clamp(p) == Min(100, Max(0, p))

\* the rows of queue_items with batch_job_id = b
ItemsOf(items, b) == {i \in DOMAIN items : items[i].batch_job_id = b}

\* a fresh row of batch_jobs (column defaults, total_items as inserted)
NewJob(total) ==
  [status |-> "pending", total_items |-> total, completed_items |-> 0,
   failed_items |-> 0, job_type |-> "video_processing",
   started_at |-> 0, completed_at |-> 0]

\* a fresh row of queue_items (column defaults)
NewItem(b, prio, maxr) ==
  [batch_job_id |-> b, priority |-> prio, status |-> "pending",
   retry_count |-> 0, max_retries |-> maxr, error_message |-> FALSE,
   progress |-> 0, stage_progress |-> 0, started_at |-> 0, completed_at |-> 0]

\* a batch job timestamp column after SET col = now(): 1 is the first value
\* written, 2 any later one (the first value has been overwritten)
Now(old) == Min(old + 1, 2)

(* --------------------- update_batch_job_progress ---------------------- *)
CountTotalPendingOnly(items, b) ==
  Cardinality({i \in ItemsOf(items, b) : items[i].status = "pending"})
\* COUNT(*) of the job's queue items
CountTotal(items, b) == Cardinality(ItemsOf(items, b))

\* COUNT(*) FILTER (WHERE status = s)
CountStatus(items, b, s) ==
  Cardinality({i \in ItemsOf(items, b) : items[i].status = s})

\* the IF / ELSIF / ELSE of the function
JobStatusOf(total, completed, failed) ==
  IF completed + failed = total /\ total > 0
  THEN (IF failed = 0 THEN "completed" ELSE "failed")
  ELSE IF completed > 0 \/ failed > 0 THEN "processing" ELSE "pending"

AggregatedRowKeepTotal(row, items, b) ==
  LET completed == CountStatus(items, b, "completed")
      failed == CountStatus(items, b, "failed")
      st == JobStatusOf(row.total_items, completed, failed)
  IN [row EXCEPT !.completed_items = completed,
                 !.failed_items = failed,
                 !.status = st,
                 !.started_at = IF @ = 0 /\ st = "processing" THEN Now(@) ELSE @,
                 !.completed_at = IF st \in {"completed", "failed"} THEN Now(@) ELSE @]
\* the UPDATE of the function applied to the row of job b
AggregatedRow(row, items, b) ==
  LET total == CountTotal(items, b)
      completed == CountStatus(items, b, "completed")
      failed == CountStatus(items, b, "failed")
      st == JobStatusOf(total, completed, failed)
  IN [row EXCEPT !.total_items = total,
                 !.completed_items = completed,
                 !.failed_items = failed,
                 !.status = st,
                 !.started_at = IF @ = 0 /\ st = "processing" THEN Now(@) ELSE @,
                 !.completed_at = IF st \in {"completed", "failed"} THEN Now(@) ELSE @]

\* the table after rpc('update_batch_job_progress', b); no row, no change
update_batch_job_progress(jobs, items, b) ==
  IF b \in DOMAIN jobs
  THEN [jobs EXCEPT ![b] = AggregatedRow(jobs[b], items, b)]
  ELSE jobs

\* get_user_batch_jobs: the derived progress of a batch job row, a REAL kept
\* as the fraction <<numerator, denominator>>
JobProgress(row) ==
  IF row.total_items = 0 THEN <<0, 1>>
  ELSE <<row.completed_items * 100, row.total_items>>

(* ------------------------- eligible items ----------------------------- *)
BeforeAscending(items, i, j) ==
  \/ items[i].priority < items[j].priority
  \/ items[i].priority = items[j].priority /\ i < j
\* .order('priority', {ascending: false}).order('created_at')
Before(items, i, j) ==
  \/ items[i].priority > items[j].priority
  \/ items[i].priority = items[j].priority /\ i < j

RECURSIVE SortItems(_, _)
\* the rows of S in query order
SortItems(items, S) ==
  IF S = {} THEN <<>>
  ELSE LET m == CHOOSE x \in S : \A y \in S \ {x} : Before(items, x, y)
       IN <<m>> \o SortItems(items, S \ {m})

\* the rows the eligible-items query returns, as the snapshots the run keeps
EligibleItems(items, b) ==
  LET ids == SortItems(items, {i \in ItemsOf(items, b) :
                                 items[i].status \in {"pending", "retrying"}})
  IN [k \in 1 .. Len(ids) |->
        [id |-> ids[k], retry_count |-> items[ids[k]].retry_count,
         max_retries |-> items[ids[k]].max_retries]]

(* ----------------------------- Semaphore ------------------------------ *)
\* new Semaphore(permits); granted holds the resolved acquires whose
\* callbacks have not run yet, in resolution order
NewSemaphore(n) == [permits |-> n, waitQueue |-> <<>>, granted |-> <<>>]

\* acquire(): take a permit, or join the wait queue
acquire(sem, who) ==
  IF sem.permits > 0
  THEN [sem EXCEPT !.permits = @ - 1, !.granted = Append(@, who)]
  ELSE [sem EXCEPT !.waitQueue = Append(@, who)]

releaseForget(sem) ==
  IF Len(sem.waitQueue) > 0
  THEN [sem EXCEPT !.waitQueue = Tail(@), !.granted = Append(@, Head(sem.waitQueue))]
  ELSE sem
releaseLifo(sem) ==
  IF Len(sem.waitQueue) > 0
  THEN [sem EXCEPT !.waitQueue = SubSeq(@, 1, Len(@) - 1),
                   !.granted = Append(@, sem.waitQueue[Len(sem.waitQueue)])]
  ELSE [sem EXCEPT !.permits = @ + 1]
\* this.permits++, then the first waiter's callback takes the permit back
release(sem) ==
  LET up == [sem EXCEPT !.permits = @ + 1]
  IN IF Len(up.waitQueue) > 0
     THEN [up EXCEPT !.permits = @ - 1,
                     !.waitQueue = Tail(@),
                     !.granted = Append(@, Head(up.waitQueue))]
     ELSE up

RECURSIVE acquireAll(_, _)
\* queueItems.map(item => semaphore.acquire()...): the acquires in order
acquireAll(sem, snaps) ==
  IF snaps = <<>> THEN sem
  ELSE acquireAll(acquire(sem, Head(snaps)), Tail(snaps))

(* ------------------------------- Init --------------------------------- *)
\* a startProcessing invocation: where it is, its Semaphore, the rows its
\* query returned, the callbacks not settled yet, the items whose acquire
\* callback has run (in order), and whether resumeBatchJob made the call
IdleRun ==
  [pc |-> "idle", job |-> 0, sem |-> NewSemaphore(0),
   snapshot |-> <<>>, unsettled |-> 0, grantLog |-> <<>>, resume |-> FALSE]

NoStats == [invoked |-> 0, failed |-> 0, succeeded |-> 0]

NoCreate == [job |-> 0, files |-> {}, priority |-> 0, maxRetries |-> 0]

\* useBatchProcessing as mounted: processingQueueRef empty, nothing in flight
NoHook == [processing |-> {}, attempts |-> {}, timers |-> EmptyBag]

\* no operation invoked yet
NoCalls ==
  [cancel |-> 0, retry |-> 0, cancelMidRun |-> FALSE, pause |-> {},
   progress |-> 0, hook |-> 0, cancelled |-> {}]

\* the QueueManager as constructed, no call in flight
InitManager ==
  /\ concurrency \in 1 .. MaxConcurrency
  /\ processing = {}
  /\ attempts = {}
  /\ timers = EmptyBag
  /\ runs = [r \in RunIds |-> IdleRun]
  /\ cancelling = [b \in JobIds |-> 0]
  /\ calls = NoCalls
  /\ creating = NoCreate
  /\ hook = NoHook

\* job 1 with n pending items, as createBatchJob's inserts leave the tables,
\* with priorities from P and max_retries from M
InitRows(n, P, M) ==
  /\ batch_jobs = (1 :> NewJob(n))
  /\ \E prio \in [1 .. n -> P], maxr \in [1 .. n -> M] :
       queue_items = [i \in 1 .. n |-> NewItem(1, prio[i], maxr[i])]
  /\ stats = [i \in 1 .. n |-> NoStats]

Init ==
  /\ InitManager
  /\ InitRows(NumItems, Priorities, 1 .. MaxItemRetries)
  /\ processors = {"video_processing"}

(* ------------------------- registerProcessor -------------------------- *)
\* this.processors.set(jobType, processor)
registerProcessor(t) ==
  /\ processors' = processors \cup {t}
  /\ UNCHANGED <<batch_jobs, queue_items, concurrency, hook, processing, attempts,
                 timers, runs, cancelling, calls, creating, stats>>

(* -------------------------- startProcessing --------------------------- *)
\* runs are taken in id order
FreeRun(r) == runs[r].pc = "idle" /\ \A q \in RunIds : q < r => runs[q].pc # "idle"

\* the call: the select of the batch job is in flight
startProcessing(r, b) ==
  /\ FreeRun(r)
  /\ runs' = [runs EXCEPT ![r] = [IdleRun EXCEPT !.pc = "load", !.job = b]]
  /\ UNCHANGED <<batch_jobs, queue_items, processors, concurrency, hook, processing,
                 attempts, timers, cancelling, calls, creating, stats>>

\* resumeBatchJob: the status update, then startProcessing
resumeBatchJob(r, b) ==
  /\ FreeRun(r)
  /\ batch_jobs' = IF b \in DOMAIN batch_jobs
                   THEN [batch_jobs EXCEPT ![b].status = "processing"]
                   ELSE batch_jobs
  /\ runs' = [runs EXCEPT ![r] = [IdleRun EXCEPT !.pc = "load", !.job = b,
                                                  !.resume = TRUE]]
  /\ UNCHANGED <<queue_items, processors, concurrency, hook, processing,
                 attempts, timers, cancelling, calls, creating, stats>>

\* pauseBatchJob: update({status: 'paused'}); the store rejects a row that
\* violates the status CHECK, and the returned error is not looked at
pauseBatchJob(b) ==
  /\ b \notin calls.pause
  /\ batch_jobs' = IF b \in DOMAIN batch_jobs /\ JobStatusCheck("paused")
                   THEN [batch_jobs EXCEPT ![b].status = "paused"]
                   ELSE batch_jobs
  /\ calls' = [calls EXCEPT !.pause = @ \cup {b}]
  /\ UNCHANGED <<queue_items, processors, concurrency, hook, processing,
                 attempts, timers, runs, cancelling, creating, stats>>

\* if (batchError || !batchJob) throw new Error('Batch job not found')
startProcessing_loadJob(r) ==
  /\ runs[r].pc = "load"
  /\ runs' = [runs EXCEPT ![r].pc =
                IF runs[r].job \in DOMAIN batch_jobs THEN "query" ELSE "catch"]
  /\ UNCHANGED <<batch_jobs, queue_items, processors, concurrency, hook, processing,
                 attempts, timers, cancelling, calls, creating, stats>>

NoEligibleNever(snaps) == FALSE
\* !queueItems || queueItems.length === 0
NoEligible(snaps) == Len(snaps) = 0

\* the eligible-items query and the early return
startProcessing_query(r) ==
  /\ runs[r].pc = "query"
  /\ LET snaps == EligibleItems(queue_items, runs[r].job)
     IN runs' = [runs EXCEPT ![r] =
                   IF NoEligible(snaps)
                   THEN [IdleRun EXCEPT !.pc = "returned"]
                   ELSE [@ EXCEPT !.pc = "mark", !.snapshot = snaps]]
  /\ UNCHANGED <<batch_jobs, queue_items, processors, concurrency, hook, processing,
                 attempts, timers, cancelling, calls, creating, stats>>

\* the batch job update to processing, then the Semaphore and the acquires
startProcessing_mark(r) ==
  /\ runs[r].pc = "mark"
  /\ LET b == runs[r].job
     IN batch_jobs' = IF b \in DOMAIN batch_jobs
                      THEN [batch_jobs EXCEPT ![b].status = "processing",
                                              ![b].started_at = Now(@)]
                      ELSE batch_jobs
  /\ runs' = [runs EXCEPT ![r].pc = "dispatch",
                          ![r].sem = acquireAll(NewSemaphore(concurrency), runs[r].snapshot),
                          ![r].unsettled = Len(runs[r].snapshot)]
  /\ UNCHANGED <<queue_items, processors, concurrency, hook, processing,
                 attempts, timers, cancelling, calls, creating, stats>>

\* this.processing.has(item.id)
InFlightNever(id) == FALSE
InFlight(id) == id \in processing

\* the eligible-items query answered with an error: if (queueError) throw queueError
startProcessing_queryError(r) ==
  /\ runs[r].pc = "query"
  /\ runs' = [runs EXCEPT ![r].pc = "catch"]
  /\ UNCHANGED <<batch_jobs, queue_items, processors, concurrency, hook, processing,
                 attempts, timers, cancelling, calls, creating, stats>>

\* a granted acquire's callback runs: processItem up to its first await
startProcessing_dispatch(r) ==
  /\ runs[r].pc = "dispatch"
  /\ Len(runs[r].sem.granted) > 0
  /\ LET s == Head(runs[r].sem.granted)
         sem1 == [runs[r].sem EXCEPT !.granted = Tail(@)]
     IN IF InFlight(s.id)
        THEN /\ runs' = [runs EXCEPT ![r].sem = release(sem1),
                                     ![r].unsettled = @ - 1,
                                     ![r].grantLog = Append(@, s.id)]
             /\ UNCHANGED <<processing, attempts>>
        ELSE /\ runs' = [runs EXCEPT ![r].sem = sem1,
                                     ![r].grantLog = Append(@, s.id)]
             /\ processing' = processing \cup {s.id}
             /\ attempts' = attempts \cup
                  {[item |-> s.id, retry_count |-> s.retry_count,
                    max_retries |-> s.max_retries, run |-> r, pc |-> "markProcessing"]}
  /\ UNCHANGED <<batch_jobs, queue_items, processors, concurrency, hook,
                 timers, cancelling, calls, creating, stats>>

\* Promise.allSettled(processingPromises) has resolved
AllSettled(run) == run.unsettled = 0

\* Promise.allSettled has resolved: the final aggregation, and the return
startProcessing_finish(r) ==
  /\ runs[r].pc = "dispatch"
  /\ AllSettled(runs[r])
  /\ batch_jobs' = update_batch_job_progress(batch_jobs, queue_items, runs[r].job)
  /\ runs' = [runs EXCEPT ![r] = [IdleRun EXCEPT !.pc = "returned"]]
  /\ UNCHANGED <<queue_items, processors, concurrency, hook, processing,
                 attempts, timers, cancelling, calls, creating, stats>>

startProcessing_catchLogOnly(r) ==
  /\ runs[r].pc = "catch"
  /\ runs' = [runs EXCEPT ![r] = [IdleRun EXCEPT !.pc = "returned"]]
  /\ UNCHANGED <<batch_jobs, queue_items, processors, concurrency, hook, processing,
                 attempts, timers, cancelling, calls, creating, stats>>

\* catch: mark the batch job failed; the error is logged, not rethrown
startProcessing_catch(r) ==
  /\ runs[r].pc = "catch"
  /\ LET b == runs[r].job
     IN batch_jobs' = IF b \in DOMAIN batch_jobs
                      THEN [batch_jobs EXCEPT ![b].status = "failed",
                                              ![b].completed_at = Now(@)]
                      ELSE batch_jobs
  /\ runs' = [runs EXCEPT ![r] = [IdleRun EXCEPT !.pc = "returned"]]
  /\ UNCHANGED <<queue_items, processors, concurrency, hook, processing,
                 attempts, timers, cancelling, calls, creating, stats>>

(* ----------------------------- processItem ---------------------------- *)
\* the row of item i after update(fields).eq('id', i)
SetItem(i, row) == [queue_items EXCEPT ![i] = row]

\* finally { this.processing.delete(item.id) }, then the callback's release()
EndAttempt(a) ==
  /\ processing' = processing \ {a.item}
  /\ attempts' = attempts \ {a}
  /\ runs' = IF a.run = 0 THEN runs
             ELSE [runs EXCEPT ![a.run].sem = release(@), ![a.run].unsettled = @ - 1]

\* the update {status: 'processing', started_at: now} is applied; the select of
\* the batch job's job_type is sent
processItem_markProcessing(a) ==
  /\ a \in attempts
  /\ a.pc = "markProcessing"
  /\ queue_items' = SetItem(a.item, [queue_items[a.item] EXCEPT
                                       !.status = "processing", !.started_at = 1])
  /\ attempts' = (attempts \ {a}) \cup {[a EXCEPT !.pc = "lookup"]}
  /\ UNCHANGED <<batch_jobs, processors, concurrency, hook, processing,
                 timers, runs, cancelling, calls, creating, stats>>

\* the select is answered: batchJob.data?.job_type || 'default', the processor
\* of that type is called, or the Error for a missing processor is thrown
processItem_lookup(a) ==
  /\ a \in attempts
  /\ a.pc = "lookup"
  /\ LET b == queue_items[a.item].batch_job_id
         jobType == IF b \in DOMAIN batch_jobs THEN batch_jobs[b].job_type ELSE "default"
         found == jobType \in processors
     IN /\ attempts' = (attempts \ {a}) \cup
                         {[a EXCEPT !.pc = IF found THEN "running" ELSE "noProcessor"]}
        /\ stats' = IF found THEN [stats EXCEPT ![a.item].invoked = @ + 1] ELSE stats
  /\ UNCHANGED <<batch_jobs, queue_items, processors, concurrency, hook, processing,
                 timers, runs, cancelling, calls, creating>>

\* the updateProgress closure handed to the processor of item i is called with
\* v, during the attempt or after it: the update is applied
processItem_updateProgress(i, v) ==
  /\ calls.progress < MaxProgressCalls
  /\ i \in DOMAIN queue_items
  /\ stats[i].invoked > 0
  /\ queue_items' = SetItem(i, [queue_items[i] EXCEPT
                                  !.progress = Clamp(v), !.stage_progress = v])
  /\ calls' = [calls EXCEPT !.progress = @ + 1]
  /\ UNCHANGED <<batch_jobs, processors, concurrency, hook, processing,
                 attempts, timers, runs, cancelling, creating, stats>>

\* the processor resolved: mark as completed
processItem_complete(a) ==
  /\ a \in attempts
  /\ a.pc = "running"
  /\ queue_items' = SetItem(a.item, [queue_items[a.item] EXCEPT
                                       !.status = "completed", !.progress = 100,
                                       !.completed_at = 1])
  /\ stats' = [stats EXCEPT ![a.item].succeeded = @ + 1]
  /\ EndAttempt(a)
  /\ UNCHANGED <<batch_jobs, processors, concurrency, hook, timers, cancelling, calls, creating>>

(* ----------------------- handleProcessingError ------------------------ *)
\* (item.retry_count || 0) + 1
NextRetryCount(a) == (IF a.retry_count # 0 THEN a.retry_count ELSE 0) + 1

\* item.max_retries || this.options.maxRetries
EffectiveMaxRetries(a) == IF a.max_retries # 0 THEN a.max_retries ELSE maxRetries

\* this.options.retryDelay * Math.pow(2, retryCount - 1)
BackoffDelay(retryCount) == retryDelay * Pow2(retryCount - 1)

\* error.message can be evaluated: not for undefined or null (a TypeError)
HasMessage(e) == e # "nullish"

\* the processor rejected with e, or none is registered (an Error): retry with
\* backoff, or fail; when error.message throws, handleProcessingError rejects
\* before its request is sent and processItem ends in its finally
handleProcessingError(a, e) ==
  /\ a \in attempts
  /\ \/ a.pc = "running"
     \/ a.pc = "noProcessor" /\ e = "error"
  /\ LET retryCount == NextRetryCount(a)
     IN IF retryCount <= EffectiveMaxRetries(a)
        THEN IF HasMessage(e)
             THEN /\ queue_items' = SetItem(a.item, [queue_items[a.item] EXCEPT
                                      !.status = "retrying", !.retry_count = retryCount,
                                      !.error_message = TRUE])
                  /\ timers' = timers (+) SetToBag(
                       {[item |-> a.item, retry_count |-> retryCount,
                         max_retries |-> a.max_retries, delay |-> BackoffDelay(retryCount)]})
                  /\ stats' = [stats EXCEPT ![a.item].failed = @ + 1]
             ELSE UNCHANGED <<queue_items, timers, stats>>
        ELSE IF HasMessage(e)
             THEN /\ queue_items' = SetItem(a.item, [queue_items[a.item] EXCEPT
                                      !.status = "failed", !.error_message = TRUE,
                                      !.completed_at = 1])
                  /\ stats' = [stats EXCEPT ![a.item].failed = @ + 1]
                  /\ UNCHANGED timers
             ELSE UNCHANGED <<queue_items, timers, stats>>
  /\ EndAttempt(a)
  /\ UNCHANGED <<batch_jobs, processors, concurrency, hook, cancelling, calls, creating>>

\* the setTimeout callback: processItem({...item, retry_count}), no permit
retryTimer(t) ==
  /\ t \in BagToSet(timers)
  /\ timers' = timers (-) SetToBag({t})
  /\ IF InFlight(t.item)
     THEN UNCHANGED <<processing, attempts>>
     ELSE /\ processing' = processing \cup {t.item}
          /\ attempts' = attempts \cup
               {[item |-> t.item, retry_count |-> t.retry_count,
                 max_retries |-> t.max_retries, run |-> 0, pc |-> "markProcessing"]}
  /\ UNCHANGED <<batch_jobs, queue_items, processors, concurrency, hook,
                 runs, cancelling, calls, creating, stats>>

(* ----------------- cancelBatchJob and retryFailedItems ---------------- *)
\* a startProcessing run of job b is dispatching, with an item of the job in
\* processing and another still pending
MidRun(b) ==
  /\ \E r \in RunIds : runs[r].pc = "dispatch" /\ runs[r].job = b
  /\ \E i \in ItemsOf(queue_items, b) : queue_items[i].status = "processing"
  /\ \E i \in ItemsOf(queue_items, b) : queue_items[i].status = "pending"

\* QueueManager.cancelBatchJob, first update: status and completed_at
cancelBatchJob(b) ==
  /\ calls.cancel < MaxCancels
  /\ b \in DOMAIN batch_jobs
  /\ batch_jobs' = [batch_jobs EXCEPT ![b].status = "cancelled",
                                      ![b].completed_at = Now(@)]
  /\ cancelling' = [cancelling EXCEPT ![b] = @ + 1]
  /\ calls' = [calls EXCEPT !.cancel = @ + 1, !.cancelMidRun = @ \/ MidRun(b)]
  /\ UNCHANGED <<queue_items, processors, concurrency, hook, processing,
                 attempts, timers, runs, stats, creating>>

\* useBatchProcessing.cancelBatchJob, first update: status only
hook_cancelBatchJob(b) ==
  /\ calls.cancel < MaxCancels
  /\ b \in DOMAIN batch_jobs
  /\ batch_jobs' = [batch_jobs EXCEPT ![b].status = "cancelled"]
  /\ cancelling' = [cancelling EXCEPT ![b] = @ + 1]
  /\ calls' = [calls EXCEPT !.cancel = @ + 1, !.cancelMidRun = @ \/ MidRun(b)]
  /\ UNCHANGED <<queue_items, processors, concurrency, hook, processing,
                 attempts, timers, runs, stats, creating>>

\* .in('status', ['pending', 'retrying'])
CancelledStatuses == {"pending", "retrying"}

\* second update of either cancelBatchJob: the pending and retrying items
cancelBatchJob_items(b) ==
  /\ cancelling[b] > 0
  /\ queue_items' = [i \in DOMAIN queue_items |->
       IF queue_items[i].batch_job_id = b /\ queue_items[i].status \in CancelledStatuses
       THEN [queue_items[i] EXCEPT !.status = "cancelled"]
       ELSE queue_items[i]]
  /\ cancelling' = [cancelling EXCEPT ![b] = @ - 1]
  /\ calls' = [calls EXCEPT !.cancelled = @ \cup
                  {i \in ItemsOf(queue_items, b) : queue_items[i].status \in CancelledStatuses}]
  /\ UNCHANGED <<batch_jobs, processors, concurrency, hook, processing,
                 attempts, timers, runs, creating, stats>>

ResetItemKeepCount(row) == [row EXCEPT !.status = "pending", !.error_message = FALSE]
\* update({status: 'pending', retry_count: 0, error_message: null})
ResetItem(row) ==
  [row EXCEPT !.status = "pending", !.retry_count = 0, !.error_message = FALSE]

\* useBatchProcessing.retryFailedItems: the failed items back to pending
retryFailedItems(b) ==
  /\ calls.retry < MaxRetryRounds
  /\ b \in DOMAIN batch_jobs
  /\ queue_items' = [i \in DOMAIN queue_items |->
       IF queue_items[i].batch_job_id = b /\ queue_items[i].status = "failed"
       THEN ResetItem(queue_items[i])
       ELSE queue_items[i]]
  /\ calls' = [calls EXCEPT !.retry = @ + 1]
  /\ UNCHANGED <<batch_jobs, processors, concurrency, hook, processing,
                 attempts, timers, runs, cancelling, stats, creating>>

(* --------------------------- createBatchJob --------------------------- *)
\* options.priority || index
CreatedPriority(opt, index) == IF opt # 0 THEN opt ELSE index

\* options.maxRetries || 3
CreatedMaxRetries(opt) == IF opt # 0 THEN opt ELSE 3

\* the insert into batch_jobs, total_items: videoFiles.length; the uploads start
createBatchJob(b, n, prioOpt, maxrOpt) ==
  /\ creating = NoCreate
  /\ b \notin DOMAIN batch_jobs
  /\ batch_jobs' = batch_jobs @@ (b :> NewJob(n))
  /\ creating' = [job |-> b, files |-> 0 .. n - 1, priority |-> prioOpt,
                  maxRetries |-> maxrOpt]
  /\ UNCHANGED <<queue_items, processors, concurrency, hook, processing, attempts,
                 timers, runs, cancelling, calls, stats>>

\* one file settles: uploaded and its queue item inserted (ok), or an error caught
createBatchJob_file(f, ok) ==
  /\ f \in creating.files
  /\ creating' = [creating EXCEPT !.files = @ \ {f}]
  /\ IF ok
     THEN LET id == Cardinality(DOMAIN queue_items) + 1
          IN /\ queue_items' = queue_items @@
                  (id :> NewItem(creating.job, CreatedPriority(creating.priority, f),
                                 CreatedMaxRetries(creating.maxRetries)))
             /\ stats' = stats @@ (id :> NoStats)
     ELSE UNCHANGED <<queue_items, stats>>
  /\ UNCHANGED <<batch_jobs, processors, concurrency, hook, processing, attempts,
                 timers, runs, cancelling, calls>>

\* Promise.all has resolved: rpc('update_batch_job_progress'), the id is returned
createBatchJob_finish ==
  /\ creating # NoCreate
  /\ creating.files = {}
  /\ batch_jobs' = update_batch_job_progress(batch_jobs, queue_items, creating.job)
  /\ creating' = NoCreate
  /\ UNCHANGED <<queue_items, processors, concurrency, hook, processing, attempts,
                 timers, runs, cancelling, calls, stats>>

(* ------------------ useBatchProcessing.processQueueItem --------------- *)
\* the frame of a step of the hook that writes no table
HookOnly ==
  UNCHANGED <<batch_jobs, queue_items, processors, concurrency, processing, attempts,
              timers, runs, cancelling, creating, stats>>

\* processQueueItem(i, processor) is called: the guard on processingQueueRef,
\* then the select of the item is sent
hook_processQueueItem(i) ==
  /\ calls.hook < MaxHookCalls
  /\ i \in DOMAIN queue_items
  /\ i \notin hook.processing
  /\ hook' = [hook EXCEPT !.processing = @ \cup {i},
                          !.attempts = @ \cup {[item |-> i, pc |-> "select",
                                                retry_count |-> 0, retry |-> FALSE]}]
  /\ calls' = [calls EXCEPT !.hook = @ + 1]
  /\ HookOnly

\* the item is returned; the update to processing is sent
hook_select(h) ==
  /\ h \in hook.attempts
  /\ h.pc = "select"
  /\ hook' = [hook EXCEPT !.attempts = (@ \ {h}) \cup {[h EXCEPT !.pc = "markProcessing"]}]
  /\ UNCHANGED calls
  /\ HookOnly

\* the update {status: 'processing', started_at} is applied; the processor is called
hook_markProcessing(h) ==
  /\ h \in hook.attempts
  /\ h.pc = "markProcessing"
  /\ queue_items' = SetItem(h.item, [queue_items[h.item] EXCEPT
                                       !.status = "processing", !.started_at = 1])
  /\ hook' = [hook EXCEPT !.attempts = (@ \ {h}) \cup {[h EXCEPT !.pc = "running"]}]
  /\ UNCHANGED <<batch_jobs, processors, concurrency, processing, attempts,
                 timers, runs, cancelling, calls, creating, stats>>

\* the processor resolved: the update to completed is applied; finally
hook_complete(h) ==
  /\ h \in hook.attempts
  /\ h.pc = "running"
  /\ queue_items' = SetItem(h.item, [queue_items[h.item] EXCEPT
                                       !.status = "completed", !.progress = 100,
                                       !.completed_at = 1])
  /\ hook' = [hook EXCEPT !.attempts = (@ \ {h}) \cup {[h EXCEPT !.pc = "finally"]}]
  /\ UNCHANGED <<batch_jobs, processors, concurrency, processing, attempts,
                 timers, runs, cancelling, calls, creating, stats>>

\* (currentItem?.retry_count || 0) + 1
hook_NextRetryCount(row) == (IF row.retry_count # 0 THEN row.retry_count ELSE 0) + 1

\* currentItem?.max_retries || 3
hook_MaxRetries(row) == IF row.max_retries # 0 THEN row.max_retries ELSE 3

\* Math.pow(2, retryCount) * 1000
hook_BackoffDelay(retryCount) == Pow2(retryCount) * 1000

\* the processor rejected: the select of retry_count and max_retries is
\* answered, and the update to retrying or to failed is sent
hook_readRetry(h) ==
  /\ h \in hook.attempts
  /\ h.pc = "running"
  /\ LET retryCount == hook_NextRetryCount(queue_items[h.item])
     IN hook' = [hook EXCEPT !.attempts = (@ \ {h}) \cup
                   {[h EXCEPT !.pc = "writeOutcome", !.retry_count = retryCount,
                              !.retry = retryCount <= hook_MaxRetries(queue_items[h.item])]}]
  /\ UNCHANGED calls
  /\ HookOnly

\* the update is applied: retrying and the retry timer, or failed; finally
hook_writeOutcome(h) ==
  /\ h \in hook.attempts
  /\ h.pc = "writeOutcome"
  /\ queue_items' = SetItem(h.item,
       IF h.retry
       THEN [queue_items[h.item] EXCEPT !.status = "retrying",
                                        !.retry_count = h.retry_count,
                                        !.error_message = TRUE]
       ELSE [queue_items[h.item] EXCEPT !.status = "failed", !.error_message = TRUE])
  /\ hook' = [hook EXCEPT
                !.attempts = (@ \ {h}) \cup {[h EXCEPT !.pc = "finally"]},
                !.timers = IF h.retry
                           THEN @ (+) SetToBag({[item |-> h.item,
                                                 delay |-> hook_BackoffDelay(h.retry_count)]})
                           ELSE @]
  /\ UNCHANGED <<batch_jobs, processors, concurrency, processing, attempts,
                 timers, runs, cancelling, calls, creating, stats>>

\* finally: the select of batch_job_id is answered; the rpc is sent
hook_finally(h) ==
  /\ h \in hook.attempts
  /\ h.pc = "finally"
  /\ hook' = [hook EXCEPT !.attempts = (@ \ {h}) \cup {[h EXCEPT !.pc = "rpc"]}]
  /\ UNCHANGED calls
  /\ HookOnly

\* rpc('update_batch_job_progress') is applied; processingQueueRef.delete
hook_rpc(h) ==
  /\ h \in hook.attempts
  /\ h.pc = "rpc"
  /\ batch_jobs' = update_batch_job_progress(batch_jobs, queue_items,
                                             queue_items[h.item].batch_job_id)
  /\ hook' = [hook EXCEPT !.attempts = @ \ {h}, !.processing = @ \ {h.item}]
  /\ UNCHANGED <<queue_items, processors, concurrency, processing, attempts,
                 timers, runs, cancelling, calls, creating, stats>>

\* the setTimeout callback: processingQueueRef.delete, then processQueueItem again
hook_retryTimer(t) ==
  /\ t \in BagToSet(hook.timers)
  /\ hook' = [hook EXCEPT !.timers = @ (-) SetToBag({t}),
                          !.processing = @ \cup {t.item},
                          !.attempts = @ \cup {[item |-> t.item, pc |-> "select",
                                                retry_count |-> 0, retry |-> FALSE]}]
  /\ UNCHANGED calls
  /\ HookOnly

(* --------------------------- specifications --------------------------- *)
\* the steps of the startProcessing invocations in flight
RunSteps ==
  \/ \E r \in RunIds : startProcessing_loadJob(r)
  \/ \E r \in RunIds : startProcessing_query(r)
  \/ \E r \in RunIds : startProcessing_mark(r)
  \/ \E r \in RunIds : startProcessing_dispatch(r)
  \/ \E r \in RunIds : startProcessing_finish(r)
  \/ \E r \in RunIds : startProcessing_catch(r)

\* the steps of the processItem invocations and of their processors
ItemSteps ==
  \/ \E a \in attempts : processItem_markProcessing(a)
  \/ \E a \in attempts : processItem_lookup(a)
  \/ \E i \in DOMAIN queue_items, v \in ProgressInputs : processItem_updateProgress(i, v)
  \/ \E a \in attempts : processItem_complete(a)
  \/ \E a \in attempts, e \in Rejections : handleProcessingError(a, e)
  \/ \E t \in BagToSet(timers) : retryTimer(t)

\* the steps of the processQueueItem invocations of the hook
HookSteps ==
  \/ \E h \in hook.attempts : hook_select(h)
  \/ \E h \in hook.attempts : hook_markProcessing(h)
  \/ \E h \in hook.attempts : hook_complete(h)
  \/ \E h \in hook.attempts : hook_readRetry(h)
  \/ \E h \in hook.attempts : hook_writeOutcome(h)
  \/ \E h \in hook.attempts : hook_finally(h)
  \/ \E h \in hook.attempts : hook_rpc(h)
  \/ \E t \in BagToSet(hook.timers) : hook_retryTimer(t)

BatchOperations ==
  \/ \E b \in JobIds : cancelBatchJob(b)
  \/ \E b \in JobIds : hook_cancelBatchJob(b)
  \/ \E b \in JobIds : cancelBatchJob_items(b)
  \/ \E b \in JobIds : retryFailedItems(b)

\* Spec: every operation of the queue and of the hook on the stored batch
\* job, called at any time; the id passed may be one with no row
Next ==
  \/ \E r \in RunIds, b \in JobIds : startProcessing(r, b)
  \/ \E r \in RunIds, b \in JobIds : resumeBatchJob(r, b)
  \/ \E b \in JobIds : pauseBatchJob(b)
  \/ \E t \in JobTypes : registerProcessor(t)
  \/ RunSteps
  \/ \E r \in RunIds : startProcessing_queryError(r)
  \/ ItemSteps
  \/ BatchOperations
  \/ \E i \in DOMAIN queue_items : hook_processQueueItem(i)
  \/ HookSteps

Spec == Init /\ [][Next]_vars

\* Init with every item of priority 1
InitFlat ==
  /\ InitManager
  /\ InitRows(NumItems, {1}, 1 .. MaxItemRetries)
  /\ processors = {"video_processing"}

\* Init with a single item
InitOne ==
  /\ InitManager
  /\ InitRows(1, {1}, 1 .. MaxItemRetries)
  /\ processors = {"video_processing"}

\* one startProcessing call and the retries it schedules
NextRun ==
  \/ \E b \in JobIds : startProcessing(1, b)
  \/ RunSteps
  \/ ItemSteps

\* what the store, the processors and the timers do once a call is made; a
\* request is answered, a processor settles and a timer fires
Settle ==
  \/ \E b \in JobIds : startProcessing(1, b)
  \/ RunSteps
  \/ \E a \in attempts : processItem_markProcessing(a)
  \/ \E a \in attempts : processItem_lookup(a)
  \/ \E a \in attempts : processItem_complete(a)
  \/ \E a \in attempts, e \in Rejections : handleProcessingError(a, e)
  \/ \E t \in BagToSet(timers) : retryTimer(t)

\* SpecRunFair: one run; the store answers every request, every processor
\* settles and every timer fires, so a step that can be taken is taken
SpecRunFair == Init /\ [][NextRun]_vars /\ WF_vars(Settle)

\* SpecStoreError: one run whose eligible-items query the store may answer
\* with an error
NextStoreError ==
  \/ NextRun
  \/ \E r \in RunIds : startProcessing_queryError(r)

SpecStoreError == Init /\ [][NextStoreError]_vars

\* SpecOverlap: startProcessing and resumeBatchJob calls on a batch job of one
\* item that do not wait for one another (the page starts runs from timers
\* and buttons)
NextOverlap ==
  \/ \E r \in RunIds, b \in JobIds : startProcessing(r, b)
  \/ \E r \in RunIds, b \in JobIds : resumeBatchJob(r, b)
  \/ RunSteps
  \/ ItemSteps

SpecOverlap == InitOne /\ [][NextOverlap]_vars

\* SpecBatchOps: one run, and the cancel and retry operations of the manager
\* and of the hook called during it or after it
NextBatchOps ==
  \/ NextRun
  \/ BatchOperations

SpecBatchOps == InitFlat /\ [][NextBatchOps]_vars

\* SpecRetryFailed: a batch job whose earlier run has ended, every item
\* completed or failed after its retries, met by a QueueManager constructed
\* since; retryFailedItems and one run
EndedItem(st) ==
  IF st = "completed"
  THEN [NewItem(1, 1, MaxItemRetries) EXCEPT !.status = "completed", !.started_at = 1,
                                             !.completed_at = 1, !.progress = 100]
  ELSE [NewItem(1, 1, MaxItemRetries) EXCEPT !.status = "failed", !.started_at = 1,
                                             !.completed_at = 1,
                                             !.retry_count = MaxItemRetries,
                                             !.error_message = TRUE]

InitEnded ==
  /\ InitManager
  /\ \E st \in [1 .. NumItems -> {"completed", "failed"}] :
       /\ queue_items = [i \in 1 .. NumItems |-> EndedItem(st[i])]
       /\ batch_jobs =
            (1 :> [update_batch_job_progress(
                     (1 :> NewJob(NumItems)),
                     [i \in 1 .. NumItems |-> EndedItem(st[i])], 1)[1]
                   EXCEPT !.started_at = 1])
  /\ stats = [i \in 1 .. NumItems |-> NoStats]
  /\ processors = {"video_processing"}

NextRetryFailed ==
  \/ NextRun
  \/ \E b \in JobIds : retryFailedItems(b)

SpecRetryFailed == InitEnded /\ [][NextRetryFailed]_vars

\* SpecProcessors: one run, by a QueueManager with or without the processor
\* of the job's type registered
InitProcessors ==
  /\ InitManager
  /\ InitRows(NumItems, {1}, 1 .. MaxItemRetries)
  /\ processors \in SUBSET JobTypes

NextProcessors ==
  \/ NextRun
  \/ \E t \in JobTypes : registerProcessor(t)

SpecProcessors == InitProcessors /\ [][NextProcessors]_vars

\* SpecPause: a run, and the batch job paused and resumed
NextPause ==
  \/ NextRun
  \/ \E b \in JobIds : pauseBatchJob(b)
  \/ \E r \in RunIds : resumeBatchJob(r, 1)

SpecPause == InitOne /\ [][NextPause]_vars

\* SpecRetry: one run over items of every max_retries from 0 to the default
InitRetry ==
  /\ InitManager
  /\ InitRows(NumItems, {1}, 0 .. maxRetries)
  /\ processors = {"video_processing"}

SpecRetry == InitRetry /\ [][NextRun]_vars

\* SpecRetryFair: SpecRetry where every step that can be taken is taken
SpecRetryFair == InitRetry /\ [][NextRun]_vars /\ WF_vars(Settle)

\* SpecOrder: one run over one more item, every assignment of priorities
InitOrder ==
  /\ InitManager
  /\ InitRows(NumItems + 1, Priorities, 1 .. MaxItemRetries)
  /\ processors = {"video_processing"}

SpecOrder == InitOrder /\ [][NextRun]_vars

\* SpecCancelRun: one run, and QueueManager.cancelBatchJob called during it
NextCancelRun ==
  \/ NextRun
  \/ cancelBatchJob(1)
  \/ cancelBatchJob_items(1)

SpecCancelRun == Init /\ [][NextCancelRun]_vars

\* SpecCancel: either cancelBatchJob on two jobs whose items are in any status
InitCancel ==
  /\ InitManager
  /\ batch_jobs = [b \in JobIds |-> NewJob(NumItems)]
  /\ \E st \in [1 .. 2 * NumItems ->
                  {"pending", "processing", "completed", "failed", "cancelled", "retrying"}] :
       queue_items = [i \in 1 .. 2 * NumItems |->
                        [NewItem(1 + (i % 2), 1, 1) EXCEPT !.status = st[i]]]
  /\ stats = [i \in 1 .. 2 * NumItems |-> NoStats]
  /\ processors = {"video_processing"}

NextCancel ==
  \/ \E b \in JobIds : cancelBatchJob(b)
  \/ \E b \in JobIds : hook_cancelBatchJob(b)
  \/ \E b \in JobIds : cancelBatchJob_items(b)

SpecCancel == InitCancel /\ [][NextCancel]_vars

\* SpecProgress: one run with processors that report progress
SpecProgress == Init /\ [][NextRun]_vars

\* SpecHook: processQueueItem of the hook beside one run of the QueueManager
NextHook ==
  \/ NextRun
  \/ \E i \in DOMAIN queue_items : hook_processQueueItem(i)
  \/ HookSteps

SpecHook == InitOne /\ [][NextHook]_vars

\* SpecCreate: the tables start empty; jobs come from createBatchJob
InitCreate ==
  /\ InitManager
  /\ batch_jobs = <<>>
  /\ queue_items = <<>>
  /\ stats = <<>>
  /\ processors = {"video_processing"}

NextCreate ==
  \/ \E n \in 0 .. NumItems, prioOpt \in {0, 1}, maxrOpt \in 0 .. MaxItemRetries :
       createBatchJob(1, n, prioOpt, maxrOpt)
  \/ \E f \in creating.files, ok \in BOOLEAN : createBatchJob_file(f, ok)
  \/ createBatchJob_finish
  \/ startProcessing(1, 1)
  \/ RunSteps
  \/ ItemSteps

SpecCreate == InitCreate /\ [][NextCreate]_vars

(* ------------------------------- claims ------------------------------- *)
ProcessingCount(b) == CountStatus(queue_items, b, "processing")

\* C1: during a startProcessing run with concurrency N, at most N items of
\* the job are in processing, retried attempts included (SpecOrder: every
\* attempt belongs to the one run, every item has max_retries >= 1).
C1_ConcurrencyBound ==
  \A r \in RunIds :
    runs[r].pc = "dispatch" => ProcessingCount(runs[r].job) <= concurrency

C3_RetryCountWithinMax ==
  \A i \in DOMAIN queue_items :
    queue_items[i].status # "failed"
      => queue_items[i].retry_count <= queue_items[i].max_retries

\* C4: the stored progress of every queue item is within [0,100], whatever
\* the processor passes to updateProgress.
C4_ProgressInRange ==
  \A i \in DOMAIN queue_items : ProgressCheck(queue_items[i].progress)

\* the processor of an item in processing has reported a value outside
\* [0,100], and the bound of the range is what was stored
C4_Witness ==
  \E i \in DOMAIN queue_items :
    /\ queue_items[i].status = "processing"
    /\ \/ queue_items[i].stage_progress > 100 /\ queue_items[i].progress = 100
       \/ queue_items[i].stage_progress < 0 /\ queue_items[i].progress = 0

AllowedEdges ==
  {<<"pending", "processing">>, <<"retrying", "processing">>,
   <<"processing", "completed">>, <<"processing", "retrying">>,
   <<"processing", "failed">>, <<"pending", "cancelled">>,
   <<"retrying", "cancelled">>, <<"failed", "pending">>}

\* C5: every status change of a queue item is one of the edges of the state
\* machine, failed -> pending only in retryFailedItems; so completed and
\* cancelled are never left.
C5_StatusEdges ==
  [][\A i \in DOMAIN queue_items :
       LET s == queue_items[i].status
           t == queue_items'[i].status
       IN s # t => /\ <<s, t>> \in AllowedEdges
                   /\ (s = "failed" => calls'.retry = calls.retry + 1)]_vars

\* C6: once cancelBatchJob has been called with items of the running job in
\* processing and items pending, the batch job's status is cancelled in
\* every later state, the run's final aggregation included (SpecCancelRun:
\* one job, one run, one cancel).
C6_CancelledStays ==
  calls.cancelMidRun => \A b \in DOMAIN batch_jobs : batch_jobs[b].status = "cancelled"

\* C7: cancelBatchJob(b) sets the job's status to cancelled and records its
\* completion time, and its item update sets to cancelled exactly the job's
\* pending and retrying items and changes no other row.
C7_CancelEffect ==
  [][\A b \in JobIds :
       /\ (cancelling'[b] = cancelling[b] + 1) =>
            /\ batch_jobs'[b].status = "cancelled"
            /\ batch_jobs'[b].completed_at # 0
            /\ \A c \in DOMAIN batch_jobs \ {b} : batch_jobs'[c] = batch_jobs[c]
            /\ queue_items' = queue_items
       /\ (cancelling'[b] = cancelling[b] - 1) =>
            /\ batch_jobs' = batch_jobs
            /\ \A i \in DOMAIN queue_items :
                 IF /\ queue_items[i].batch_job_id = b
                    /\ queue_items[i].status \in {"pending", "retrying"}
                 THEN queue_items'[i] = [queue_items[i] EXCEPT !.status = "cancelled"]
                 ELSE queue_items'[i] = queue_items[i]]_vars

\* job b has no queue item in pending or retrying
NothingEligible(b) ==
  \A i \in DOMAIN queue_items :
    queue_items[i].batch_job_id = b => queue_items[i].status \notin {"pending", "retrying"}

\* C8: a startProcessing call whose eligible-items query finds no pending or
\* retrying item returns at once and leaves every batch job and queue item
\* as it was; no aggregation runs.
C8_NoEligibleNoOp ==
  [][\A r \in RunIds :
       (runs[r].pc = "query" /\ runs'[r].pc # "query" /\ NothingEligible(runs[r].job))
         => /\ runs'[r].pc = "returned"
            /\ batch_jobs' = batch_jobs
            /\ queue_items' = queue_items]_vars

\* a second call is about to query a completed job, all its items completed
C8_Witness ==
  /\ runs[1].pc = "returned"
  /\ runs[2].pc = "query"
  /\ runs[2].job \in DOMAIN batch_jobs
  /\ batch_jobs[runs[2].job].status = "completed"
  /\ NothingEligible(runs[2].job)
  /\ \A i \in ItemsOf(queue_items, runs[2].job) : queue_items[i].status = "completed"

SnapshotIds(r) == [k \in 1 .. Len(runs[r].snapshot) |-> runs[r].snapshot[k].id]

\* C9: the eligible items of a run are ordered by priority descending, then
\* creation time ascending ([5,1,5] gives A,C,B), and the permits are granted,
\* and the attempts begun, in that order.
C9_DispatchOrder ==
  \A r \in RunIds :
    runs[r].pc \in {"mark", "dispatch"} =>
      LET ids == SnapshotIds(r)
      IN /\ \A k, l \in 1 .. Len(ids) :
              k < l => \/ queue_items[ids[k]].priority > queue_items[ids[l]].priority
                       \/ /\ queue_items[ids[k]].priority = queue_items[ids[l]].priority
                          /\ ids[k] < ids[l]
         /\ {ids[k] : k \in 1 .. Len(ids)} = DOMAIN queue_items
         /\ Len(runs[r].grantLog) <= Len(ids)
         /\ runs[r].grantLog = SubSeq(ids, 1, Len(runs[r].grantLog))
         /\ ([i \in DOMAIN queue_items |-> queue_items[i].priority] = <<5, 1, 5>>
               => ids = <<1, 3, 2>>)

\* priorities [5,1,5]: all three permits granted, in the order A, C, B
C9_Witness ==
  /\ [i \in DOMAIN queue_items |-> queue_items[i].priority] = <<5, 1, 5>>
  /\ runs[1].pc = "dispatch"
  /\ runs[1].grantLog = <<1, 3, 2>>

\* C10: an item with max_retries = M whose processor always fails is attempted
\* M + 1 times, its k-th retry scheduled retryDelay * 2^(k-1) after the k-th
\* failure, and it is failed on the (M+1)-th failure.
C10_RetriesAndBackoff ==
  \A i \in DOMAIN queue_items :
    LET M == queue_items[i].max_retries
        k == stats[i].failed
    IN /\ stats[i].invoked <= M + 1
       /\ queue_items[i].status = "failed" => k = M + 1
       /\ \A t \in BagToSet(timers) :
            t.item = i => k <= M /\ t.delay = retryDelay * Pow2(k - 1)

\* C11: in a batch of two items, an item with max_retries = 0 whose processor
\* throws goes from processing straight to failed (it is never retrying and
\* its retry_count stays 0), and once the other item has succeeded and the
\* run has returned the batch job is failed.
C11_ZeroRetriesFailAtOnce ==
  \A i \in DOMAIN queue_items :
    queue_items[i].max_retries = 0 =>
      /\ queue_items[i].status # "retrying"
      /\ queue_items[i].retry_count = 0
      /\ stats[i].failed > 0 => queue_items[i].status = "failed"
      /\ ( /\ stats[i].failed > 0
           /\ runs[1].pc = "returned"
           /\ \A j \in DOMAIN queue_items \ {i} : queue_items[j].status = "completed" )
           => batch_jobs[1].status = "failed"

\* all items of the job have been attempted exactly once, successfully
AllSucceededFirst(b) ==
  \A i \in ItemsOf(queue_items, b) : stats[i] = [invoked |-> 1, failed |-> 0, succeeded |-> 1]

\* C12: when a run over N >= 1 items whose processors all succeed on the first
\* attempt has returned, every item is completed with progress 100 and the
\* batch job is completed with completed_items = N, failed_items = 0 and
\* derived progress 100.
C12_AllSucceed ==
  (runs[1].pc = "returned" /\ AllSucceededFirst(1)) =>
    LET N == Cardinality(ItemsOf(queue_items, 1))
    IN /\ \A i \in ItemsOf(queue_items, 1) :
            queue_items[i].status = "completed" /\ queue_items[i].progress = 100
       /\ batch_jobs[1].status = "completed"
       /\ batch_jobs[1].completed_items = N
       /\ batch_jobs[1].failed_items = 0
       /\ batch_jobs[1].total_items = N
       /\ JobProgress(batch_jobs[1])[1] = 100 * JobProgress(batch_jobs[1])[2]

\* the ids of a sequence of item ids or snapshots, as a set
IdSet(ids) == {ids[k] : k \in 1 .. Len(ids)}

\* C13: retryFailedItems(b) sets every failed item of job b to pending with
\* retry_count 0 and no error message, changes no other item and no batch
\* job, and starts no processing; the query of a following startProcessing
\* returns exactly the pending and retrying items, the reset ones among them,
\* and the run calls processItem for each of them before it returns.
C13_RetryFailedItems ==
  [][/\ (calls'.retry = calls.retry + 1) =>
          /\ \E b \in DOMAIN batch_jobs :
               queue_items' = [i \in DOMAIN queue_items |->
                 IF queue_items[i].batch_job_id = b /\ queue_items[i].status = "failed"
                 THEN [queue_items[i] EXCEPT !.status = "pending", !.retry_count = 0,
                                             !.error_message = FALSE]
                 ELSE queue_items[i]]
          /\ UNCHANGED <<batch_jobs, processing, attempts, timers, runs, stats>>
     /\ \A r \in RunIds :
          /\ (runs[r].pc = "query" /\ runs'[r].pc = "mark") =>
               IdSet(SnapshotIds(r))' =
                 {i \in ItemsOf(queue_items, runs[r].job) :
                    queue_items[i].status \in {"pending", "retrying"}}
          /\ (runs[r].pc = "dispatch" /\ runs'[r].pc = "returned") =>
               IdSet(runs[r].grantLog) = IdSet(SnapshotIds(r))]_vars

\* an item that had failed after its retries and was reset is being
\* attempted by the next run, beside an item that stays completed
C13_Witness ==
  /\ calls.retry = 1
  /\ runs[1].pc = "dispatch"
  /\ \E j \in DOMAIN queue_items :
       queue_items[j].status = "completed" /\ stats[j] = NoStats
  /\ \E a \in attempts :
       /\ a.run = 1
       /\ a.retry_count = 0
       /\ queue_items[a.item].completed_at # 0
       /\ queue_items[a.item].status = "processing"
       /\ queue_items[a.item].retry_count = 0
       /\ queue_items[a.item].error_message = FALSE

\* C14: a startProcessing call for a batch job that is not in the store ends
\* by rejecting to its caller (outcome "rejected", the NotFoundError), and no
\* row of either table is written.
C14_NotFoundSurfaced ==
  [][\A r \in RunIds :
       ( /\ runs[r].pc = "catch"
         /\ ~runs[r].resume
         /\ runs[r].job \notin DOMAIN batch_jobs
         /\ runs'[r].pc # "catch" )
         => /\ runs'[r].pc = "rejected"
            /\ batch_jobs' = batch_jobs
            /\ queue_items' = queue_items]_vars

\* C15: when the job's type has no registered processor, startProcessing
\* aborts: no item becomes retrying and no retry is scheduled for the missing
\* processor, and when the call (one that found the job and marked it
\* started) has returned the batch job is failed.
C15_UnregisteredProcessor ==
  ("video_processing" \notin processors) =>
     /\ \A i \in DOMAIN queue_items : queue_items[i].status # "retrying"
     /\ timers = EmptyBag
     /\ (runs[1].pc = "returned" /\ batch_jobs[1].started_at # 0)
          => batch_jobs[1].status = "failed"

\* the step is a processing failure of item i being handled
FailureOf(i) == stats'[i].failed = stats[i].failed + 1

\* the step ends an attempt of item i whose processor rejected or was missing
AttemptFailed(i) ==
  /\ \E a \in attempts : a.item = i /\ a.pc \in {"running", "noProcessor"}
  /\ \A a \in attempts' : a.item # i
  /\ stats'[i].succeeded = stats[i].succeeded

\* C16: a failed attempt of an item never leaves startProcessing (no call
\* enters its catch) and never keeps the other items from being dispatched
\* and settled (the call returns only with every item of its query handed to
\* processItem); it leaves every other row alone, and of the item's own row
\* it changes status, to retrying or failed, retry_count and error message
\* only.
C16_FailureOnlyStatusRetryError ==
  [][/\ \A i \in DOMAIN queue_items :
          AttemptFailed(i) =>
            /\ \A j \in DOMAIN queue_items \ {i} : queue_items'[j] = queue_items[j]
            /\ batch_jobs' = batch_jobs
            /\ \A r \in RunIds : runs'[r].pc \notin {"catch", "rejected"}
            /\ queue_items'[i].status \in {"retrying", "failed"}
            /\ queue_items'[i] = [queue_items[i] EXCEPT
                                    !.status = queue_items'[i].status,
                                    !.retry_count = queue_items'[i].retry_count,
                                    !.error_message = queue_items'[i].error_message]
     /\ \A r \in RunIds :
          (runs[r].pc = "dispatch" /\ runs'[r].pc # "dispatch") =>
             /\ runs'[r].pc = "returned"
             /\ IdSet(runs[r].grantLog) = IdSet(SnapshotIds(r))]_vars

\* the status the aggregation rule gives for item counts total, completed, failed
AggregateStatus(total, completed, failed) ==
  IF completed + failed = total /\ total > 0 /\ failed = 0 THEN "completed"
  ELSE IF completed + failed = total /\ total > 0 /\ failed > 0 THEN "failed"
  ELSE IF completed + failed < total /\ (completed > 0 \/ failed > 0) THEN "processing"
  ELSE "pending"

\* the step runs update_batch_job_progress for job b: at the end of
\* createBatchJob, or as the final aggregation of a run
AggregationOf(b) ==
  \/ creating # NoCreate /\ creating.job = b /\ creating' = NoCreate
  \/ \E r \in RunIds :
       runs[r].job = b /\ runs[r].pc = "dispatch" /\ runs'[r].pc = "returned"

\* C17: whenever aggregation runs for a batch job, the stored status is the
\* one the rule gives for the counts of its items (completed, failed,
\* processing or pending), and the stored total, completed and failed counts
\* are the item counts.
C17_Aggregation ==
  [][\A b \in DOMAIN batch_jobs :
       AggregationOf(b) =>
         LET mine == {i \in DOMAIN queue_items' : queue_items'[i].batch_job_id = b}
             total == Cardinality(mine)
             completed == Cardinality({i \in mine : queue_items'[i].status = "completed"})
             failed == Cardinality({i \in mine : queue_items'[i].status = "failed"})
         IN /\ batch_jobs'[b].status = AggregateStatus(total, completed, failed)
            /\ batch_jobs'[b].total_items = total
            /\ batch_jobs'[b].completed_items = completed
            /\ batch_jobs'[b].failed_items = failed]_vars

\* a run's final aggregation has stored failed for one item completed and one
\* failed
C17_Witness ==
  /\ creating = NoCreate
  /\ runs[1].pc = "returned"
  /\ 1 \in DOMAIN batch_jobs
  /\ batch_jobs[1].status = "failed"
  /\ batch_jobs[1].total_items = 2
  /\ batch_jobs[1].completed_items = 1
  /\ batch_jobs[1].failed_items = 1
  /\ CountStatus(queue_items, 1, "failed") = 1
  /\ CountStatus(queue_items, 1, "completed") = 1

\* C18: once a batch job's start timestamp is set it is never written again,
\* and once its completion timestamp is set it is never written again, by any
\* startProcessing, resumeBatchJob or aggregation.
C18_TimestampsOnce ==
  [][\A b \in DOMAIN batch_jobs :
       /\ batch_jobs[b].started_at # 0 => batch_jobs'[b].started_at = batch_jobs[b].started_at
       /\ batch_jobs[b].completed_at # 0 =>
            batch_jobs'[b].completed_at = batch_jobs[b].completed_at]_vars

\* C19: pauseBatchJob(b) leaves the batch job with stored status paused and
\* changes no queue item; no attempt in flight and no scheduled retry is
\* touched.
C19_PauseEffect ==
  [][\A b \in DOMAIN batch_jobs :
       (b \notin calls.pause /\ b \in calls'.pause) =>
          /\ batch_jobs'[b].status = "paused"
          /\ UNCHANGED <<queue_items, processing, attempts, timers>>]_vars

\* C20: resumeBatchJob(b) sets the batch job's status to processing, its query
\* returns every item that is pending or retrying then, and when the call
\* returns the stored status is the aggregate of the job's items, also when
\* there was nothing to dispatch.
C20_ResumeAggregates ==
  [][\A r \in RunIds :
       LET b == runs'[r].job
           c == runs[r].job
       IN /\ (runs[r].pc = "idle" /\ runs'[r].resume /\ b \in DOMAIN batch_jobs) =>
               batch_jobs'[b].status = "processing"
          /\ (runs[r].resume /\ runs[r].pc = "query" /\ runs'[r].pc = "mark") =>
               IdSet(SnapshotIds(r))' =
                 {i \in ItemsOf(queue_items, c) :
                    queue_items[i].status \in {"pending", "retrying"}}
          /\ ( /\ runs[r].resume
               /\ runs[r].pc \in {"query", "dispatch"}
               /\ runs'[r].pc = "returned"
               /\ c \in DOMAIN batch_jobs ) =>
               batch_jobs'[c].status =
                 AggregateStatus(CountTotal(queue_items', c),
                                 CountStatus(queue_items', c, "completed"),
                                 CountStatus(queue_items', c, "failed"))]_vars

\* every item of job b is completed or failed
AllItemsSettled(b) ==
  /\ ItemsOf(queue_items, b) # {}
  /\ \A i \in ItemsOf(queue_items, b) : queue_items[i].status \in {"completed", "failed"}

\* the stored row of job b is the aggregate of its settled items
StoredAggregate(b) ==
  /\ batch_jobs[b].status =
       (IF CountStatus(queue_items, b, "failed") = 0 THEN "completed" ELSE "failed")
  /\ batch_jobs[b].completed_items = CountStatus(queue_items, b, "completed")
  /\ batch_jobs[b].failed_items = CountStatus(queue_items, b, "failed")

\* C21: once every item of the (never cancelled) batch job is completed or
\* failed, also when the last of them finished through a scheduled retry after
\* startProcessing returned, the stored status eventually is completed (no
\* failed item) or failed, with completed_items and failed_items the counts.
C21_EventualAggregate == AllItemsSettled(1) ~> StoredAggregate(1)

\* the attempts of run r that hold a permit
HoldingPermit(r) == {a \in attempts : a.run = r}

IdsOf(snaps) == [k \in 1 .. Len(snaps) |-> snaps[k].id]

\* C23: the callers of Semaphore.acquire get their permits in the order of
\* their calls: the items already granted, then those whose grant is resolved,
\* then the waiters, are the items in acquire order; and while a caller waits
\* no permit is free for a later acquire to take.
C23_SemaphoreFifo ==
  \A r \in RunIds :
    runs[r].pc = "dispatch" =>
      /\ runs[r].grantLog \o IdsOf(runs[r].sem.granted) \o IdsOf(runs[r].sem.waitQueue)
           = SnapshotIds(r)
      /\ Len(runs[r].sem.waitQueue) > 0 => runs[r].sem.permits = 0

\* of three callers with one permit, the first two have been granted in turn
\* and the third still waits
C23_Witness ==
  /\ concurrency = 1
  /\ runs[1].pc = "dispatch"
  /\ Len(runs[1].snapshot) = 3
  /\ Len(runs[1].grantLog) = 2
  /\ Len(runs[1].sem.waitQueue) = 1

\* C24: startProcessing returns only when every item of its query has been
\* dispatched and its attempt has ended with the outcome written (completed,
\* retrying or failed; processing again only through its own retry timer);
\* it does not wait for scheduled retries.
C24_ReturnAfterAttempts ==
  [][\A r \in RunIds :
       (runs[r].pc = "dispatch" /\ runs'[r].pc = "returned") =>
          /\ HoldingPermit(r) = {}
          /\ IdSet(runs[r].grantLog) = IdSet(SnapshotIds(r))
          /\ \A i \in IdSet(SnapshotIds(r)) :
               /\ stats[i].succeeded + stats[i].failed >= 1
               /\ \/ queue_items[i].status \in {"completed", "retrying", "failed"}
                  \/ /\ queue_items[i].status = "processing"
                     /\ \E a \in attempts : a.item = i /\ a.run = 0]_vars

(* ------------------------------- C25 ---------------------------------- *)
\* C25: whatever the interleaving of startProcessing calls, resumeBatchJob
\* calls and retry timers, no item has two attempts in flight at once, and
\* every attempt in flight holds its item's entry of the processing map
C25_OneAttemptPerItem ==
  /\ \A a1 \in attempts : \A a2 \in attempts : a1.item = a2.item => a1 = a2
  /\ \A a \in attempts : a.item \in processing

\* a run was granted the permit of an item that another run's attempt held in
\* flight, and returned from processItem without invoking the processor
C25_Witness ==
  \E r \in RunIds : \E a \in attempts :
    /\ runs[r].pc = "dispatch"
    /\ a.run # r
    /\ a.pc = "running"
    /\ \E k \in 1 .. Len(runs[r].grantLog) : runs[r].grantLog[k] = a.item
    /\ stats[a.item] = [invoked |-> 1, failed |-> 0, succeeded |-> 0]

(* ------------------------------- C26 ---------------------------------- *)
\* the handled failure of item i, whose stored row has retry_count r: retrying
\* with r + 1 while r + 1 <= max_retries, failed with r kept otherwise, the
\* error message recorded either way
FailureOutcome(i) ==
  LET r == queue_items[i].retry_count
  IN IF r + 1 <= queue_items[i].max_retries
     THEN /\ queue_items'[i].status = "retrying"
          /\ queue_items'[i].retry_count = r + 1
          /\ queue_items'[i].error_message
     ELSE /\ queue_items'[i].status = "failed"
          /\ queue_items'[i].retry_count = r
          /\ queue_items'[i].error_message
          /\ queue_items'[i].completed_at # 0

\* item i goes from retrying to processing in the attempt its retry timer
\* started when the delay had elapsed
RetryAfterDelay(i) ==
  (queue_items[i].status = "retrying" /\ queue_items'[i].status = "processing")
    => \E a \in attempts : a.item = i /\ a.run = 0

\* C26: a failed attempt of an item with stored retry_count r makes it
\* retrying with r + 1 and the error message when r + 1 <= max_retries, and
\* failed with the error message, a completion timestamp and r unchanged
\* otherwise; a retrying item re-enters processing only after its delay.
C26_RetryOrFail ==
  [][\A i \in DOMAIN queue_items :
       /\ FailureOf(i) => FailureOutcome(i)
       /\ RetryAfterDelay(i)]_vars

(* ------------------------------- C27 ---------------------------------- *)
\* C27: when the eligible-items query of startProcessing returns an error, the
\* call dispatches no item, marks the batch job failed with a completion
\* time, and returns without trying the query or the dispatch again (a call
\* in its catch whose batch job was found is there for the query's error).
C27_StoreErrorFailsJob ==
  [][\A r \in RunIds :
       /\ runs[r].pc = "catch" =>
            /\ HoldingPermit(r) = {}
            /\ runs[r].grantLog = << >>
            /\ runs[r].sem.granted = << >>
       /\ ( /\ runs[r].pc = "catch"
            /\ runs[r].job \in DOMAIN batch_jobs
            /\ runs'[r].pc # "catch" ) =>
            /\ batch_jobs'[runs[r].job].status = "failed"
            /\ batch_jobs'[runs[r].job].completed_at # 0
            /\ runs'[r].pc = "returned"
            /\ queue_items' = queue_items
            /\ attempts' = attempts
            /\ timers' = timers
            /\ stats' = stats
       /\ runs[r].pc = "returned" => runs'[r].pc = "returned"]_vars

\* the call has returned from its catch: the batch job is failed with its
\* completion time, and every item is still pending, never handed a processor
C27_Witness ==
  /\ runs[1].pc = "returned"
  /\ batch_jobs[1].status = "failed"
  /\ batch_jobs[1].completed_at # 0
  /\ batch_jobs[1].started_at = 0
  /\ \A i \in DOMAIN queue_items :
       queue_items[i].status = "pending" /\ stats[i] = NoStats

(* ------------------------------- C28 ---------------------------------- *)
\* C28: under overlapping startProcessing and resumeBatchJob calls on one
\* batch job, the processor of each queue item runs to success at most once:
\* a completed item is not dispatched again from another call's snapshot or
\* from a leftover retry timer.
C28_SucceedsAtMostOnce ==
  \A i \in DOMAIN queue_items : stats[i].succeeded <= 1

(* ------------------------------- C29 ---------------------------------- *)
\* C29: once cancelBatchJob has returned, no processor is invoked for an item
\* it set to cancelled, whether the item was waiting for a permit of a
\* running startProcessing call or retrying with its retry timer pending.
C29_NoInvokeAfterCancel ==
  [][\A i \in calls.cancelled :
       cancelling[queue_items[i].batch_job_id] = 0
         => stats'[i].invoked = stats[i].invoked]_vars

(* ------------------------------- C30 ---------------------------------- *)
\* every item's processor has been invoked at most max_retries + 1 times
InvokedWithinRetries ==
  \A i \in DOMAIN queue_items : stats[i].invoked <= queue_items[i].max_retries + 1

\* C30: a single startProcessing call that is never cancelled, whose
\* processors all settle, eventually returns; every item it dispatched ends
\* completed or failed, none staying in processing or retrying for ever; and
\* each item's processor is invoked at most max_retries + 1 times.
C30_RunTerminates ==
  /\ <>(runs[1].pc = "returned")
  /\ \A i \in 1 .. NumItems :
       (queue_items[i].started_at # 0)
          ~> [](queue_items[i].status \in {"completed", "failed"})
  /\ []InvokedWithinRetries

====
